---- MODULE Spec2Model ----
(***************************************************************************)
(* Customer purchase prediction pipeline (Future-Cart).                    *)
(*                                                                         *)
(* The model follows run_pipeline.py: DataLoader.basic_preprocessing,      *)
(* DataLoader.create_labels, DataLoader.get_train_test_split (applied to   *)
(* the transaction table and to the label table) and                       *)
(* FeatureEngineer.create_all_features (train table without a reference,   *)
(* test table with the train features as reference).                       *)
(*                                                                         *)
(* A DataFrame is a sequence of rows; a row is a record whose field idx    *)
(* is the DataFrame index of the row.  Timestamps are whole days.          *)
(***************************************************************************)
EXTENDS Integers, Sequences, FiniteSets, TLC

\* ------------------------------------------------------------------ bounds
MaxRows == 3            \* rows of a raw table without missing ids or returns
MaxDirtyRows == 2       \* rows of a raw table with missing ids, returns, zeros
NumCustomers == 3       \* customer ids 1..NumCustomers
MaxDay == 3             \* distinct invoice days, the last one after the cutoff
MaxWindow == 2          \* prediction windows 0..MaxWindow
MaxCalls == 2           \* calls of get_train_test_split on the transaction table
MaxSamples == 3         \* customers the evaluator is given

\* ------------------------------------------------------- values of the data
\* days are counted from 2011-01-01 = day 1, so 2011-09-01 is day 244
DefaultCutoff == 244          \* cutoff_date = "2011-09-01"
DefaultReferenceDate == 244   \* reference_date = "2011-09-01"
NaN == 0                \* a missing CustomerID (pandas NaN)
Unparsable == 0         \* an InvoiceDate string that is not a date
CountryNames == <<"DE", "FR", "UK", "US">>    \* in the order str sorts them
Countries == {"FR", "UK"}
CountryRank(c) == CHOOSE i \in 1..Len(CountryNames) : CountryNames[i] = c
Customers == 1..NumCustomers
Days == (DefaultCutoff + 2 - MaxDay)..(DefaultCutoff + 1)
Quantities == {0 - 1, 0, 2}
Seeds == {7, 42}

\* ------------------------------------------------------- pandas primitives
Abs(x) == IF x < 0 THEN 0 - x ELSE x

Max(S) == CHOOSE x \in S : \A y \in S : y <= x

Min(S) == CHOOSE x \in S : \A y \in S : x <= y

Range(s) == {s[i] : i \in 1..Len(s)}

RECURSIVE SortedSeq(_)
\* the members of a set of integers in increasing order (groupby sorts keys)
SortedSeq(S) == IF S = {} THEN <<>>
                ELSE LET m == Min(S) IN <<m>> \o SortedSeq(S \ {m})

RECURSIVE Unique(_)
\* Series.unique(): the distinct values in order of first appearance
Unique(s) == IF s = <<>> THEN <<>>
             ELSE LET r == Unique(SubSeq(s, 1, Len(s) - 1))
                      x == s[Len(s)]
                  IN IF x \in Range(r) THEN r ELSE Append(r, x)

Column(df, c) == [i \in 1..Len(df) |-> df[i][c]]

RowsOf(df, cust) == SelectSeq(df, LAMBDA r : r.CustomerID = cust)

RECURSIVE Sum(_, _)
Sum(df, c) == IF df = <<>> THEN 0 ELSE df[1][c] + Sum(Tail(df), c)

\* ------------------------------------------------------------------- state
VARIABLES
    data,                    \* DataLoader.data, the raw table
    cutoff_date,             \* argument of basic_preprocessing
    prediction_window_days,  \* argument of create_labels
    test_size,               \* argument of get_train_test_split, in tenths
    random_state,            \* argument of get_train_test_split
    preprocessed_data,       \* run_data_preprocessing locals
    labels,
    train_data, test_data,
    train_labels, test_labels,
    train_features, test_features,   \* run_feature_engineering locals
    features,                \* result of a direct call of create_all_features
    rng,                     \* permutations the seeded generators have returned
    reference_date,          \* FeatureEngineer.reference_date
    calls,                   \* calls of get_train_test_split on the table
    lacking,                 \* columns the table given to create_all_features lacks
    raised,                  \* class of the exception that ended the run, "" if none
    y_true, y_proba,         \* ModelEvaluator.y_true, ModelEvaluator.y_proba
    k_values,                \* argument of calculate_precision_at_k, calculate_recall_at_k
    sorted_indices,          \* np.argsort(self.y_proba)[::-1] of the last ranking
    precision_at_k,          \* results of the evaluator's methods
    recall_at_k,
    business_metrics,
    decile,                  \* df['decile'] of calculate_lift
    lift_data,
    pc                       \* position in the pipeline

evaluator_vars == <<y_true, y_proba, k_values, sorted_indices, precision_at_k,
                    recall_at_k, business_metrics, decile, lift_data>>

vars == <<data, cutoff_date, prediction_window_days, test_size, random_state,
          preprocessed_data, labels, train_data, test_data, train_labels,
          test_labels, train_features, test_features, features, rng,
          reference_date, calls, lacking, raised, evaluator_vars, pc>>

RawRow(i, cs, qs, ds, ps, ns, invs) ==
    {[idx |-> i, InvoiceNo |-> inv, StockCode |-> "P1", Description |-> "D1",
      Quantity |-> q, InvoiceDate |-> d, UnitPrice |-> p, CustomerID |-> c,
      Country |-> n] :
        c \in cs, q \in qs, d \in ds, p \in ps, n \in ns, inv \in invs}

RawTables(maxrows, cs, qs, ds, ps, ns, invs) ==
    UNION {[1..n -> RawRow(1, cs, qs, ds, ps, ns, invs)] : n \in 1..maxrows}

Reindex(t) == [i \in 1..Len(t) |-> [t[i] EXCEPT !.idx = i]]

EmptyFeatures == [columns |-> <<>>, rows |-> <<>>]

\* an evaluator that has been given no arrays and has computed nothing
NoEvaluator ==
    /\ y_true = <<>> /\ y_proba = <<>>
    /\ k_values = <<>>
    /\ sorted_indices = <<>>
    /\ precision_at_k = <<>> /\ recall_at_k = <<>>
    /\ business_metrics = <<>>
    /\ decile = <<>>
    /\ lift_data = <<>>

InitWith(tables, cutoffs, windows, sizes, seeds, refdates) ==
    /\ \E t \in tables : data = Reindex(t)
    /\ lacking = {}
    /\ raised = ""
    /\ NoEvaluator
    /\ cutoff_date \in cutoffs
    /\ prediction_window_days \in windows
    /\ test_size \in sizes
    /\ random_state \in seeds
    /\ preprocessed_data = <<>>
    /\ labels = <<>>
    /\ train_data = <<>> /\ test_data = <<>>
    /\ train_labels = <<>> /\ test_labels = <<>>
    /\ train_features = EmptyFeatures /\ test_features = EmptyFeatures
    /\ features = EmptyFeatures
    /\ rng = {}
    /\ reference_date \in refdates
    /\ calls = 0
    /\ pc = "loaded"

\* ------------------------------------------------- DataLoader (data_loader.py)
\* df['is_return'] = df['Quantity'] < 0 ; df['Quantity'] = df['Quantity'].abs()
MarkReturn(r) ==
    [idx |-> r.idx, InvoiceNo |-> r.InvoiceNo, StockCode |-> r.StockCode,
     Description |-> r.Description, Quantity |-> Abs(r.Quantity),
     InvoiceDate |-> r.InvoiceDate, UnitPrice |-> r.UnitPrice,
     CustomerID |-> r.CustomerID, Country |-> r.Country,
     is_return |-> (r.Quantity < 0)]

\* df['TotalAmount'] = df['Quantity'] * df['UnitPrice']
AddTotalAmount(r) ==
    [idx |-> r.idx, InvoiceNo |-> r.InvoiceNo, StockCode |-> r.StockCode,
     Description |-> r.Description, Quantity |-> r.Quantity,
     InvoiceDate |-> r.InvoiceDate, UnitPrice |-> r.UnitPrice,
     CustomerID |-> r.CustomerID, Country |-> r.Country,
     is_return |-> r.is_return,
     TotalAmount |-> r.Quantity * r.UnitPrice]

DropNaCustomer(df) == SelectSeq(df, LAMBDA r : r.CustomerID # NaN)

\* mutant: rows of quantity zero are kept
PositiveQuantity_KeepZero(df) == SelectSeq(df, LAMBDA r : r.Quantity >= 0)

PositiveQuantity(df) == SelectSeq(df, LAMBDA r : r.Quantity > 0)

\* mutant: the cutoff day itself is excluded
UpToCutoff_Strict(df, cutoff) == SelectSeq(df, LAMBDA r : r.InvoiceDate < cutoff)

UpToCutoff(df, cutoff) == SelectSeq(df, LAMBDA r : r.InvoiceDate <= cutoff)

basic_preprocessing(raw, cutoff) ==
    LET df1 == DropNaCustomer(raw)
        df2 == [i \in 1..Len(df1) |-> MarkReturn(df1[i])]
        df3 == PositiveQuantity(df2)
        df4 == [i \in 1..Len(df3) |-> AddTotalAmount(df3[i])]
    IN UpToCutoff(df4, cutoff)

\* mutant: the quantities are made absolute on self.data itself
loader_data_after_InPlace(raw) ==
    [i \in 1..Len(raw) |-> [raw[i] EXCEPT !.Quantity = Abs(raw[i].Quantity)]]

\* df = self.data.copy(): every assignment and filter that follows is on
\* the copy, so self.data is after the call what it was before
loader_data_after(raw) == raw

\* df['InvoiceDate'] = pd.to_datetime(df['InvoiceDate']) raises a ValueError
\* (dateutil's ParserError, pandas' DateParseError) on a string that is not
\* a date
to_datetime_raises(raw) == \E i \in 1..Len(raw) : raw[i].InvoiceDate = Unparsable

DoBasicPreprocessing ==
    /\ pc = "loaded"
    /\ IF to_datetime_raises(data)
       THEN /\ pc' = "error"
            /\ raised' = "ValueError"
            /\ UNCHANGED preprocessed_data
       ELSE /\ preprocessed_data' = basic_preprocessing(data, cutoff_date)
            /\ pc' = "preprocessed"
            /\ UNCHANGED raised
    /\ data' = loader_data_after(data)
    /\ UNCHANGED <<lacking, evaluator_vars>>
    /\ UNCHANGED <<features, cutoff_date, prediction_window_days, test_size,
                   random_state, labels, train_data, test_data, train_labels,
                   test_labels, train_features, test_features, rng, reference_date, calls>>

\* create_labels: one row per customer (groupby sorts the keys), the
\* customer's latest day, and whether the customer bought in the window
\* mutant: the customer's first day is taken for the latest
customer_latest_First(df) ==
    LET keys == SortedSeq(Range(Column(df, "CustomerID")) \ {NaN})
    IN [i \in 1..Len(keys) |->
          [idx |-> i, CustomerID |-> keys[i],
           last_purchase_date |-> Min(Range(Column(RowsOf(df, keys[i]), "InvoiceDate")))]]

customer_latest(df) ==
    LET keys == SortedSeq(Range(Column(df, "CustomerID")) \ {NaN})
    IN [i \in 1..Len(keys) |->
          [idx |-> i, CustomerID |-> keys[i],
           last_purchase_date |-> Max(Range(Column(RowsOf(df, keys[i]), "InvoiceDate")))]]

\* mutant: the window includes the cutoff day
future_purchases_Closed(df, max_date, prediction_cutoff) ==
    Range(Column(SelectSeq(df, LAMBDA r : /\ r.InvoiceDate >= prediction_cutoff
                                          /\ r.InvoiceDate <= max_date),
                 "CustomerID"))

future_purchases(df, max_date, prediction_cutoff) ==
    Range(Column(SelectSeq(df, LAMBDA r : /\ r.InvoiceDate > prediction_cutoff
                                          /\ r.InvoiceDate <= max_date),
                 "CustomerID"))

AddLabel(r, buyers) ==
    [idx |-> r.idx, CustomerID |-> r.CustomerID,
     last_purchase_date |-> r.last_purchase_date,
     will_purchase |-> IF r.CustomerID \in buyers THEN 1 ELSE 0]

create_labels(df, window) ==
    IF df = <<>> THEN <<>>
    ELSE LET max_date == Max(Range(Column(df, "InvoiceDate")))
             prediction_cutoff == max_date - window
             buyers == future_purchases(df, max_date, prediction_cutoff)
             latest == customer_latest(df)
         IN [i \in 1..Len(latest) |-> AddLabel(latest[i], buyers)]

\* mutant: the maximum of an empty column is an error
create_labels_raises_OnEmpty(df) == df = <<>>

\* no statement of create_labels raises: on an empty table groupby().max()
\* is empty, max_date is NaT, both comparisons with NaT select no row and
\* isin() of no customers is an empty column
create_labels_raises(df) == FALSE

DoCreateLabels ==
    /\ pc = "preprocessed"
    /\ IF create_labels_raises(preprocessed_data)
       THEN pc' = "error" /\ raised' = "ValueError" /\ UNCHANGED labels
       ELSE /\ labels' = create_labels(preprocessed_data, prediction_window_days)
            /\ pc' = "labelled"
            /\ UNCHANGED raised
    /\ UNCHANGED <<lacking, evaluator_vars>>
    /\ UNCHANGED <<features, data, cutoff_date, prediction_window_days, test_size,
                   random_state, preprocessed_data, train_data, test_data,
                   train_labels, test_labels, train_features, test_features,
                   rng, reference_date, calls>>

\* sklearn train_test_split(customers, test_size, random_state):
\* n_test = ceil(test_size * n), n_train = n - n_test, ValueError when the
\* train side would be empty; the test side takes the first n_test entries
\* of RandomState(seed).permutation(n), the train side the rest.
AllPermutations(n) == {p \in [1..n -> 1..n] : \A i, j \in 1..n : p[i] = p[j] => i = j}

n_test_of(tenths, n) == (tenths * n + 9) \div 10

split_accepts(tenths, n) == n >= 1 /\ n - n_test_of(tenths, n) >= 1

\* the permutations RandomState(seed).permutation(n) can return, given the
\* ones it has returned: a seeded generator repeats itself
\* mutant: random_state is not passed on, every call draws afresh
seeded_permutation_Unseeded(seed, n, drawn) == AllPermutations(n)

seeded_permutation(seed, n, drawn) ==
    IF \E e \in drawn : e.seed = seed /\ e.n = n
    THEN {e.perm : e \in {d \in drawn : d.seed = seed /\ d.n = n}}
    ELSE AllPermutations(n)

\* mutant: only the first row of each selected customer is kept
IsIn_FirstRow(df, custs) ==
    SelectSeq(df, LAMBDA r : /\ r.CustomerID \in custs
                             /\ \A i \in 1..Len(df) :
                                   df[i].CustomerID = r.CustomerID => r.idx <= df[i].idx)

IsIn(df, custs) == SelectSeq(df, LAMBDA r : r.CustomerID \in custs)

\* mutant: the train side starts one position early
get_train_test_split_Overlap(df, tenths, perm) ==
    LET customers == Unique(Column(df, "CustomerID"))
        n == Len(customers)
        n_test == n_test_of(tenths, n)
        test_customers == {customers[perm[i]] : i \in 1..n_test}
        train_customers == {customers[perm[i]] : i \in n_test..n}
    IN [train |-> IsIn(df, train_customers), test |-> IsIn(df, test_customers)]

get_train_test_split(df, tenths, perm) ==
    LET customers == Unique(Column(df, "CustomerID"))
        n == Len(customers)
        n_test == n_test_of(tenths, n)
        test_customers == {customers[perm[i]] : i \in 1..n_test}
        train_customers == {customers[perm[i]] : i \in (n_test + 1)..n}
    IN [train |-> IsIn(df, train_customers), test |-> IsIn(df, test_customers)]

NumUnique(df) == Len(Unique(Column(df, "CustomerID")))

\* train_data, test_data = data_loader.get_train_test_split(preprocessed_data)
SplitData ==
    /\ LET n == NumUnique(preprocessed_data) IN
       IF split_accepts(test_size, n)
       THEN \E perm \in seeded_permutation(random_state, n, rng) :
              LET s == get_train_test_split(preprocessed_data, test_size, perm) IN
              /\ train_data' = s.train
              /\ test_data' = s.test
              /\ rng' = rng \cup {[seed |-> random_state, n |-> n, perm |-> perm]}
              /\ calls' = calls + 1
              /\ pc' = "split_data"
              /\ UNCHANGED raised
       ELSE /\ pc' = "error"
            /\ raised' = "ValueError"
            /\ UNCHANGED <<train_data, test_data, rng, calls>>
    /\ UNCHANGED <<lacking, evaluator_vars>>
    /\ UNCHANGED <<features, data, cutoff_date, prediction_window_days, test_size,
                   random_state, preprocessed_data, labels, train_labels,
                   test_labels, train_features, test_features, reference_date>>

DoSplitData ==
    /\ pc = "labelled"
    /\ SplitData

\* the same call once more, on the same table with the same arguments
DoSplitDataAgain ==
    /\ pc = "split_data"
    /\ calls < MaxCalls
    /\ SplitData

DoSplitLabels ==
    /\ pc = "split_data"
    /\ LET n == NumUnique(labels) IN
       \E perm \in seeded_permutation(random_state, n, rng) :
         LET s == get_train_test_split(labels, test_size, perm) IN
         /\ train_labels' = s.train
         /\ test_labels' = s.test
         /\ rng' = rng \cup {[seed |-> random_state, n |-> n, perm |-> perm]}
    /\ pc' = "split"
    /\ UNCHANGED <<lacking, raised, evaluator_vars>>
    /\ UNCHANGED <<features, data, cutoff_date, prediction_window_days, test_size,
                   random_state, preprocessed_data, labels, train_data,
                   test_data, train_features, test_features, reference_date, calls>>

\* --------------------------------- FeatureEngineer (feature_engineering.py)
\* A feature table is [columns, rows]: the column names in order, and the
\* rows as functions from column name to cell.  A cell is a rational
\* num/den, the square root of one (a standard deviation), or NaN.
Col(name) == [prefix |-> "", name |-> name]

Dummy(country) == [prefix |-> "country_", name |-> country]

StartsWithCountry(col) == col.prefix = "country_"

CustomerIDCol == Col("CustomerID")

RECURSIVE GCD(_, _)
GCD(a, b) == IF b = 0 THEN a ELSE GCD(b, a % b)

Ratio(n, d) == LET g == GCD(n, d) IN [kind |-> "num", num |-> n \div g, den |-> d \div g]

Num(n) == [kind |-> "num", num |-> n, den |-> 1]

NaNCell == [kind |-> "nan", num |-> 0, den |-> 1]

Zero == Num(0)

Epsilon == 100000000     \* 1 / 1e-8

\* Series.std(): the sample standard deviation, NaN for fewer than two values
RECURSIVE SumSeq(_)
SumSeq(s) == IF s = <<>> THEN 0 ELSE s[1] + SumSeq(Tail(s))

Std(s) ==
    IF Len(s) < 2 THEN NaNCell
    ELSE LET n == Len(s)
             sq == [i \in 1..n |-> s[i] * s[i]]
             r == Ratio(n * SumSeq(sq) - SumSeq(s) * SumSeq(s), n * (n - 1))
         IN [kind |-> "sqrt", num |-> r.num, den |-> r.den]

Mean(s) == Ratio(SumSeq(s), Len(s))

\* Series.dt.dayofweek and Series.dt.month; day 1 is 2011-01-01, a Saturday
dayofweek(d) == (d + 4) % 7

MonthEnds == <<31, 59, 90, 120, 151, 181, 212, 243, 273, 304, 334, 365>>

month(d) == LET y == ((d - 1) % 365) + 1
            IN Min({m \in 1..12 : y <= MonthEnds[m]})

GroupKeys(df) == SortedSeq(Range(Column(df, "CustomerID")) \ {NaN})

Table(cols, rows) == [columns |-> cols, rows |-> rows]

MkRow(cols, vals) == [c \in Range(cols) |-> vals[CHOOSE i \in 1..Len(cols) : cols[i] = c]]

rfm_columns ==
    <<CustomerIDCol, Col("recency_days"), Col("frequency"), Col("monetary"),
      Col("total_monetary"), Col("total_transactions"), Col("unique_invoices")>>

\* mutant: the first purchase instead of the last
last_purchase_date_First(g) == Min(Range(Column(g, "InvoiceDate")))

\* 'InvoiceDate': ['max', ...]
last_purchase_date(g) == Max(Range(Column(g, "InvoiceDate")))

create_rfm_features(df, refdate) ==
    LET keys == GroupKeys(df)
        row(c) == LET g == RowsOf(df, c)
                      last == last_purchase_date(g)
                      total == Sum(g, "TotalAmount")
                  IN MkRow(rfm_columns,
                       <<Num(c), Num(refdate - last), Num(Len(g)), Ratio(total, Len(g)),
                         Num(total), Num(Len(g)),
                         Num(Cardinality(Range(Column(g, "InvoiceNo"))))>>)
    IN Table(rfm_columns, [i \in 1..Len(keys) |-> row(keys[i])])

diversity_columns ==
    <<CustomerIDCol, Col("unique_products"), Col("unique_descriptions"),
      Col("avg_basket_size"), Col("avg_basket_value")>>

create_basket_diversity_features(df) ==
    LET keys == GroupKeys(df)
        row(c) == LET g == RowsOf(df, c)
                      baskets == Cardinality(Range(Column(g, "InvoiceNo")))
                  IN MkRow(diversity_columns,
                       <<Num(c), Num(Cardinality(Range(Column(g, "StockCode")))),
                         Num(Cardinality(Range(Column(g, "Description")))),
                         Ratio(Len(g), baskets), Ratio(Sum(g, "TotalAmount"), baskets)>>)
    IN Table(diversity_columns, [i \in 1..Len(keys) |-> row(keys[i])])

momentum_columns ==
    <<CustomerIDCol, Col("spend_30d"), Col("spend_90d"), Col("spend_ratio_30d_90d"),
      Col("spend_ratio_90d_180d"), Col("freq_30d"), Col("freq_90d"),
      Col("transactions_30d"), Col("transactions_90d")>>

\* for customer_id in df['CustomerID'].unique():
\* mutant: the loop runs over every row's customer id
momentum_customers_PerRow(df) == Column(df, "CustomerID")

momentum_customers(df) == Unique(Column(df, "CustomerID"))

\* mutant: the day the window starts on is left out
since_Strict(g, start) == SelectSeq(g, LAMBDA r : r.InvoiceDate > start)

\* customer_data[customer_data['InvoiceDate'] >= window]
since(g, start) == SelectSeq(g, LAMBDA r : r.InvoiceDate >= start)

create_momentum_features(df, refdate) ==
    LET keys == momentum_customers(df)
        window_30d == refdate - 30
        window_90d == refdate - 90
        window_180d == refdate - 180
        row(c) == LET g == RowsOf(df, c)
                      recent_30d == since(g, window_30d)
                      recent_90d == since(g, window_90d)
                      previous_90d == SelectSeq(g, LAMBDA r : /\ r.InvoiceDate >= window_180d
                                                              /\ r.InvoiceDate < window_90d)
                      spend_30d == Sum(recent_30d, "TotalAmount")
                      spend_90d == Sum(recent_90d, "TotalAmount")
                      spend_prev_90d == Sum(previous_90d, "TotalAmount")
                  IN MkRow(momentum_columns,
                       <<Num(c), Num(spend_30d), Num(spend_90d),
                         Ratio(spend_30d * Epsilon, spend_90d * Epsilon + 1),
                         Ratio(spend_90d * Epsilon, spend_prev_90d * Epsilon + 1),
                         Ratio(Len(recent_30d), 30), Ratio(Len(recent_90d), 90),
                         Num(Len(recent_30d)), Num(Len(recent_90d))>>)
    IN Table(IF df = <<>> THEN <<>> ELSE momentum_columns,
             [i \in 1..Len(keys) |-> row(keys[i])])

\* df['is_return'] = (df['Quantity'] < 0) | (df['InvoiceNo'].str.startswith('C'))
\* assigned on the table the caller passed
StartsWithC(invoice) == Len(invoice) > 0 /\ invoice[1] = "C"

FlagReturn(r) ==
    [idx |-> r.idx, InvoiceNo |-> r.InvoiceNo, StockCode |-> r.StockCode,
     Description |-> r.Description, Quantity |-> r.Quantity,
     InvoiceDate |-> r.InvoiceDate, UnitPrice |-> r.UnitPrice,
     CustomerID |-> r.CustomerID, Country |-> r.Country,
     is_return |-> (r.Quantity < 0 \/ StartsWithC(r.InvoiceNo)),
     TotalAmount |-> r.TotalAmount]

return_columns ==
    <<CustomerIDCol, Col("total_returns"), Col("return_rate"),
      Col("return_amount"), Col("net_amount")>>

\* the caller's table after the assignment of is_return
flag_returns(df) == [i \in 1..Len(df) |-> FlagReturn(df[i])]

\* mutant: the aggregation reads the flag the table came with
returns_table_Stale(df) == df

\* the table df.groupby('CustomerID').agg({'is_return': ...}) reads: df
\* with is_return just assigned
returns_table(df) == flag_returns(df)

\* mutant: the returned amount is not taken off
net_amount_of_Gross(total_amount, return_amount) == total_amount

\* return_features['total_amount'] - return_features['return_amount']
net_amount_of(total_amount, return_amount) == total_amount - return_amount

create_return_features(df) ==
    LET flagged == returns_table(df)
        keys == GroupKeys(flagged)
        row(c) == LET g == RowsOf(flagged, c)
                      returns == SelectSeq(g, LAMBDA r : r.is_return)
                      total_amount == Sum(g, "TotalAmount")
                      return_amount == Sum(returns, "TotalAmount")
                  IN MkRow(return_columns,
                       <<Num(c), Num(Len(returns)), Ratio(Len(returns), Len(g)),
                         Num(return_amount),
                         Num(net_amount_of(total_amount, return_amount))>>)
    IN Table(return_columns, [i \in 1..Len(keys) |-> row(keys[i])])

\* x.mode()[0]: Series.mode() returns the most frequent values sorted
Count(s, v) == Cardinality({i \in 1..Len(s) : s[i] = v})

FirstIndex(s, v) == Min({i \in 1..Len(s) : s[i] = v})

\* mutant: among the most frequent values, the one seen first
Mode_FirstSeen(s) ==
    LET best == {v \in Range(s) : \A w \in Range(s) : Count(s, w) <= Count(s, v)}
    IN CHOOSE v \in best : \A w \in best : FirstIndex(s, v) <= FirstIndex(s, w)

Mode(s) ==
    LET best == {v \in Range(s) : \A w \in Range(s) : Count(s, w) <= Count(s, v)}
    IN CHOOSE v \in best : \A w \in best : CountryRank(v) <= CountryRank(w)

\* pd.get_dummies(..., prefix='country'): one column per observed value, in
\* sorted order
get_dummies(values) ==
    LET ranks == SortedSeq({CountryRank(v) : v \in Range(values)})
    IN [i \in 1..Len(ranks) |-> Dummy(CountryNames[ranks[i]])]

create_geographic_features(df) ==
    LET keys == GroupKeys(df)
        primary_country == [i \in 1..Len(keys) |-> Mode(Column(RowsOf(df, keys[i]), "Country"))]
        country_dummies == get_dummies(primary_country)
        cols == <<CustomerIDCol>> \o country_dummies
        row(i) == [c \in Range(cols) |->
                     IF c = CustomerIDCol THEN Num(keys[i])
                     ELSE IF c = Dummy(primary_country[i]) THEN Num(1) ELSE Zero]
    IN Table(cols, [i \in 1..Len(keys) |-> row(i)])

\* mutant: customer_lifetime_days is left out of the returned columns
temporal_columns_NoLifetime ==
    <<CustomerIDCol, Col("avg_day_of_week"), Col("std_day_of_week"), Col("avg_month"),
      Col("std_month"), Col("weekend_ratio")>>

temporal_columns ==
    <<CustomerIDCol, Col("avg_day_of_week"), Col("std_day_of_week"), Col("avg_month"),
      Col("std_month"), Col("weekend_ratio"), Col("customer_lifetime_days")>>

create_temporal_features(df) ==
    LET keys == GroupKeys(df)
        row(c) == LET dates == Column(RowsOf(df, c), "InvoiceDate")
                      dow == [i \in 1..Len(dates) |-> dayofweek(dates[i])]
                      mon == [i \in 1..Len(dates) |-> month(dates[i])]
                      weekend == [i \in 1..Len(dates) |-> IF dow[i] \in {5, 6} THEN 1 ELSE 0]
                  IN MkRow(temporal_columns,
                       <<Num(c), Mean(dow), Std(dow), Mean(mon), Std(mon), Mean(weekend),
                         Num(Max(Range(dates)) - Min(Range(dates)))>>)
    IN Table(temporal_columns, [i \in 1..Len(keys) |-> row(keys[i])])

\* DataFrame.merge(right, on='CustomerID', how='left'): every left row once
\* per matching right row, or once with NaN when nothing matches
RECURSIVE Flatten(_)
Flatten(ss) == IF ss = <<>> THEN <<>> ELSE ss[1] \o Flatten(Tail(ss))

WithoutKey(cols) == SelectSeq(cols, LAMBDA c : c # CustomerIDCol)

Restrict(row, colset) == [c \in colset |-> row[c]]

merge_left(left, right) ==
    LET rcols == WithoutKey(right.columns)
        joined(l) ==
            LET matches == SelectSeq(right.rows, LAMBDA r : r[CustomerIDCol] = l[CustomerIDCol])
            IN IF matches = <<>>
               THEN <<l @@ [c \in Range(rcols) |-> NaNCell]>>
               ELSE [j \in 1..Len(matches) |-> l @@ Restrict(matches[j], Range(rcols))]
    IN Table(left.columns \o rcols,
             Flatten([i \in 1..Len(left.rows) |-> joined(left.rows[i])]))

\* mutant: missing values are left as they are
fillna_None(t) == t

\* all_features[numeric_columns].fillna(0)
fillna(t) ==
    Table(t.columns,
          [i \in 1..Len(t.rows) |->
             [c \in DOMAIN t.rows[i] |->
                IF t.rows[i][c].kind = "nan" THEN Zero ELSE t.rows[i][c]]])

\* mutant: the new column is left unfilled
add_column_Unfilled(t, col, value) ==
    Table(Append(t.columns, col),
          [i \in 1..Len(t.rows) |-> t.rows[i] @@ (col :> NaNCell)])

\* all_features[col] = value, for a column the table does not have
add_column(t, col, value) ==
    Table(Append(t.columns, col),
          [i \in 1..Len(t.rows) |-> t.rows[i] @@ (col :> value)])

\* mutant: no column is added
add_missing_country_columns_None(t, country_columns) == t

\* for col in country_columns: if col not in all_features.columns: all_features[col] = 0
RECURSIVE add_missing_country_columns(_, _)
add_missing_country_columns(t, country_columns) ==
    IF country_columns = <<>> THEN t
    ELSE LET col == Head(country_columns)
             t1 == IF col \in Range(t.columns) THEN t ELSE add_column(t, col, Zero)
         IN add_missing_country_columns(t1, Tail(country_columns))

\* all_features.drop(columns=extra_country_columns)
drop_extra_country_columns(t, country_columns) ==
    LET kept == SelectSeq(t.columns,
                   LAMBDA c : ~(StartsWithCountry(c) /\ c \notin Range(country_columns)))
    IN Table(kept, [i \in 1..Len(t.rows) |-> Restrict(t.rows[i], Range(kept))])

\* all_features[[col for col in reference_columns if col in all_features.columns]]
reorder_as_reference(t, reference_columns) ==
    LET available_columns == SelectSeq(reference_columns, LAMBDA c : c \in Range(t.columns))
    IN Table(available_columns,
             [i \in 1..Len(t.rows) |-> Restrict(t.rows[i], Range(available_columns))])

align_with_reference(t, reference_features) ==
    LET country_columns == SelectSeq(reference_features.columns, StartsWithCountry)
        t1 == add_missing_country_columns(t, country_columns)
        t2 == drop_extra_country_columns(t1, country_columns)
    IN reorder_as_reference(t2, reference_features.columns)

merge_all(df, refdate) ==
    LET rfm_features == create_rfm_features(df, refdate)
        diversity_features == create_basket_diversity_features(df)
        momentum_features == create_momentum_features(df, refdate)
        return_features == create_return_features(df)
        geographic_features == create_geographic_features(df)
        temporal_features == create_temporal_features(df)
        m1 == merge_left(rfm_features, diversity_features)
        m2 == merge_left(m1, momentum_features)
        m3 == merge_left(m2, return_features)
        m4 == merge_left(m3, geographic_features)
    IN merge_left(m4, temporal_features)

\* merge(..., on='CustomerID') raises KeyError when a side has no CustomerID
\* column
merge_raises(left, right) ==
    \/ CustomerIDCol \notin Range(left.columns)
    \/ CustomerIDCol \notin Range(right.columns)

\* the five merges of create_all_features, in order
create_all_features_raises(df, refdate) ==
    LET rfm_features == create_rfm_features(df, refdate)
        diversity_features == create_basket_diversity_features(df)
        momentum_features == create_momentum_features(df, refdate)
        return_features == create_return_features(df)
        geographic_features == create_geographic_features(df)
        temporal_features == create_temporal_features(df)
        m1 == merge_left(rfm_features, diversity_features)
        m2 == merge_left(m1, momentum_features)
        m3 == merge_left(m2, return_features)
        m4 == merge_left(m3, geographic_features)
    IN \/ merge_raises(rfm_features, diversity_features)
       \/ merge_raises(m1, momentum_features)
       \/ merge_raises(m2, return_features)
       \/ merge_raises(m3, geographic_features)
       \/ merge_raises(m4, temporal_features)

\* def get_feature_names
get_feature_names ==
    <<Col("recency_days"), Col("frequency"), Col("monetary"), Col("total_monetary"),
      Col("total_transactions"), Col("unique_invoices"),
      Col("unique_products"), Col("unique_descriptions"), Col("avg_basket_size"),
      Col("avg_basket_value"),
      Col("spend_30d"), Col("spend_90d"), Col("spend_ratio_30d_90d"),
      Col("spend_ratio_90d_180d"), Col("freq_30d"), Col("freq_90d"),
      Col("transactions_30d"), Col("transactions_90d"),
      Col("total_returns"), Col("return_rate"), Col("return_amount"), Col("net_amount"),
      Col("avg_day_of_week"), Col("std_day_of_week"), Col("avg_month"), Col("std_month"),
      Col("weekend_ratio"), Col("customer_lifetime_days")>>

\* has_reference is FALSE for reference_features=None
create_all_features(df, refdate, has_reference, reference_features) ==
    LET all_features == fillna(merge_all(df, refdate))
    IN IF has_reference THEN align_with_reference(all_features, reference_features)
       ELSE all_features

\* run_feature_engineering, first call: the train table, no reference
DoTrainFeatures ==
    /\ pc = "split"
    /\ IF create_all_features_raises(train_data, reference_date)
       THEN pc' = "error" /\ raised' = "KeyError" /\ UNCHANGED train_features
       ELSE /\ train_features' = create_all_features(train_data, reference_date, FALSE, EmptyFeatures)
            /\ pc' = "train_features"
            /\ UNCHANGED raised
    /\ UNCHANGED <<lacking, evaluator_vars>>
    /\ train_data' = flag_returns(train_data)
    /\ UNCHANGED <<features, data, cutoff_date, prediction_window_days, test_size,
                   random_state, preprocessed_data, labels, test_data,
                   train_labels, test_labels, test_features, rng,
                   reference_date, calls>>

\* run_feature_engineering, second call: the test table, aligned with the
\* train features
DoTestFeatures ==
    /\ pc = "train_features"
    /\ IF create_all_features_raises(test_data, reference_date)
       THEN pc' = "error" /\ raised' = "KeyError" /\ UNCHANGED test_features
       ELSE /\ test_features' = create_all_features(test_data, reference_date, TRUE, train_features)
            /\ pc' = "done"
            /\ UNCHANGED raised
    /\ UNCHANGED <<lacking, evaluator_vars>>
    /\ test_data' = flag_returns(test_data)
    /\ UNCHANGED <<features, data, cutoff_date, prediction_window_days, test_size,
                   random_state, preprocessed_data, labels, train_data,
                   train_labels, test_labels, train_features, rng,
                   reference_date, calls>>

\* create_all_features called on the whole preprocessed table, without a
\* reference
CallFeatures(after) ==
    /\ IF create_all_features_raises(preprocessed_data, reference_date)
       THEN pc' = "error" /\ raised' = "KeyError" /\ UNCHANGED features
       ELSE /\ features' = create_all_features(preprocessed_data, reference_date, FALSE, EmptyFeatures)
            /\ pc' = after
            /\ UNCHANGED raised
    /\ UNCHANGED <<lacking, evaluator_vars>>
    /\ preprocessed_data' = flag_returns(preprocessed_data)
    /\ UNCHANGED <<data, cutoff_date, prediction_window_days, test_size,
                   random_state, labels, train_data, test_data, train_labels,
                   test_labels, train_features, test_features, rng,
                   reference_date, calls>>

DoFeatures ==
    /\ pc = "preprocessed"
    /\ CallFeatures("features")

\* the same call once more, on the table the first call was given
DoFeaturesAgain ==
    /\ pc = "features"
    /\ CallFeatures("features_twice")

\* the columns each builder reads from the table, in the order
\* create_all_features calls the builders
builder_reads ==
    <<{"CustomerID", "InvoiceDate", "TotalAmount", "InvoiceNo"},
      {"CustomerID", "StockCode", "Description", "InvoiceNo", "TotalAmount"},
      {"CustomerID", "InvoiceDate", "TotalAmount"},
      {"Quantity", "InvoiceNo", "CustomerID", "TotalAmount"},
      {"CustomerID", "Country"},
      {"CustomerID", "InvoiceDate"}>>

\* df['X'], groupby('X') and agg({'X': ...}) raise KeyError when the table
\* has no column X; no builder checks the columns beforehand
missing_column_raises(lack) ==
    \E i \in 1..Len(builder_reads) : builder_reads[i] \cap lack # {}

\* the call gets as far as the assignment of is_return: the first three
\* builders and the right-hand side of the assignment found their columns
reaches_flag_returns(lack) ==
    (builder_reads[1] \cup builder_reads[2] \cup builder_reads[3]
        \cup {"Quantity", "InvoiceNo"}) \cap lack = {}

RequiredRawColumns ==
    {"CustomerID", "InvoiceDate", "Quantity", "UnitPrice", "InvoiceNo",
     "StockCode", "Description", "Country"}

\* create_all_features on the preprocessed table without one of its
\* columns, no reference; the rows of preprocessed_data keep the value and
\* lacking names the column that is not there
DoFeaturesLacking ==
    /\ pc = "preprocessed"
    /\ \E c \in RequiredRawColumns \cup {"TotalAmount"} :
         /\ lacking' = {c}
         /\ IF missing_column_raises({c})
                \/ create_all_features_raises(preprocessed_data, reference_date)
            THEN pc' = "error" /\ raised' = "KeyError" /\ UNCHANGED features
            ELSE /\ features' = create_all_features(preprocessed_data, reference_date,
                                                    FALSE, EmptyFeatures)
                 /\ pc' = "features"
                 /\ UNCHANGED raised
         /\ preprocessed_data' = IF reaches_flag_returns({c})
                                 THEN flag_returns(preprocessed_data)
                                 ELSE preprocessed_data
    /\ UNCHANGED <<data, cutoff_date, prediction_window_days, test_size,
                   random_state, labels, train_data, test_data, train_labels,
                   test_labels, train_features, test_features, rng,
                   reference_date, calls, evaluator_vars>>

\* --------------------------------------- ModelEvaluator (evaluation.py)
\* probabilities are counted in tenths
Probas == {2, 5}

DefaultKValues == <<10, 20, 50, 100>>

TargetingSizes == <<100, 500, 1000>>

MarketingCost == 10

ConversionValue == 100

DefaultDeciles == 10

NoDecile == 0 - 1       \* a NaN of df['decile']

\* np.argsort(a) with the default kind: the index orders that put a in
\* ascending order; quicksort is not stable, equal values come in any order
argsort(a) ==
    {p \in AllPermutations(Len(a)) : \A i \in 1..(Len(a) - 1) : a[p[i]] <= a[p[i + 1]]}

\* s[::-1]
Reversed(s) == [i \in 1..Len(s) |-> s[Len(s) + 1 - i]]

\* a[indices]
Take(a, indices) == [i \in 1..Len(indices) |-> a[indices[i]]]

\* mutant: the sum of the first k labels is always divided by k
precision_of_OverK(sorted_true, k) ==
    Ratio(SumSeq(SubSeq(sorted_true, 1, Min({k, Len(sorted_true)}))), k)

\* sorted_true[:k].mean() if k <= len(sorted_true) else sorted_true.mean()
precision_of(sorted_true, k) ==
    IF k <= Len(sorted_true) THEN Mean(SubSeq(sorted_true, 1, k))
    ELSE Mean(sorted_true)

\* sorted_true[:k].sum() / total_positive if k <= len(sorted_true) else 1.0
recall_of(sorted_true, k) ==
    LET total_positive == SumSeq(sorted_true)
    IN IF k <= Len(sorted_true)
       THEN IF total_positive = 0 THEN NaNCell
            ELSE Ratio(SumSeq(SubSeq(sorted_true, 1, k)), total_positive)
       ELSE Num(1)

roi_of(sorted_true, k) ==
    LET total_cost == k * MarketingCost
        expected_conversions == SumSeq(SubSeq(sorted_true, 1, k))
        expected_revenue == expected_conversions * ConversionValue
    IN [roi |-> [kind |-> "num", num |-> expected_revenue - total_cost, den |-> total_cost],
        net_profit |-> expected_revenue - total_cost,
        expected_conversions |-> expected_conversions]

\* the arguments k_values can take: one cutoff, or None for the default
KValues == {<<k>> : k \in 1..(MaxSamples + 1)} \cup {DefaultKValues}

\* sorted_indices = np.argsort(self.y_proba)[::-1]
Ranking(after) ==
    /\ pc = "evaluator"
    /\ \E p \in argsort(y_proba) : sorted_indices' = Reversed(p)
    /\ pc' = after
    /\ UNCHANGED <<y_true, y_proba, decile, lift_data>>
    /\ UNCHANGED <<data, cutoff_date, prediction_window_days, test_size,
                   random_state, preprocessed_data, labels, train_data, test_data,
                   train_labels, test_labels, train_features, test_features,
                   features, rng, reference_date, calls, lacking, raised>>

DoPrecisionAtK ==
    /\ Ranking("precision")
    /\ \E ks \in KValues :
         /\ k_values' = ks
         /\ precision_at_k' = [k \in Range(ks) |->
                                  precision_of(Take(y_true, sorted_indices'), k)]
    /\ UNCHANGED <<recall_at_k, business_metrics>>

DoRecallAtK ==
    /\ Ranking("recall")
    /\ \E ks \in KValues :
         /\ k_values' = ks
         /\ recall_at_k' = [k \in Range(ks) |->
                               recall_of(Take(y_true, sorted_indices'), k)]
    /\ UNCHANGED <<precision_at_k, business_metrics>>

DoBusinessMetrics ==
    /\ Ranking("business")
    /\ business_metrics' =
          [k \in {m \in Range(TargetingSizes) : m <= Len(y_true)} |->
              roi_of(Take(y_true, sorted_indices'), k)]
    /\ UNCHANGED <<k_values, precision_at_k, recall_at_k>>

\* Series.quantile(j / deciles) with linear interpolation, times deciles
quantile(sorted, j, deciles) ==
    LET h == (Len(sorted) - 1) * j
        lo == h \div deciles
        r == h % deciles
    IN IF r = 0 THEN deciles * sorted[lo + 1]
       ELSE deciles * sorted[lo + 1] + r * (sorted[lo + 2] - sorted[lo + 1])

\* the bin edges of pd.qcut(x, deciles, duplicates='drop'), times deciles:
\* the quantiles 0, 1/deciles, ..., 1, each value once
qcut_bins(x, deciles) ==
    LET sorted == Take(x, CHOOSE p \in argsort(x) : TRUE)
    IN Unique([j \in 1..(deciles + 1) |-> quantile(sorted, j - 1, deciles)])

\* _bins_to_cuts(..., labels=False, include_lowest=True): the bin of a
\* value is bins.searchsorted(value, side='left'), 1 for the lowest edge,
\* and missing when that is 0 or len(bins)
qcut_code(bins, value) ==
    LET ids == IF value = bins[1] THEN 1
               ELSE Cardinality({i \in 1..Len(bins) : bins[i] < value})
    IN IF ids = 0 \/ ids = Len(bins) THEN NoDecile ELSE ids - 1

qcut(x, deciles) ==
    LET bins == qcut_bins(x, deciles)
    IN [i \in 1..Len(x) |-> qcut_code(bins, deciles * x[i])]

\* a quotient of two cells, 0 / 0 being NaN
Quotient(a, b) ==
    IF b.num = 0 THEN NaNCell ELSE Ratio(a.num * b.den, a.den * b.num)

\* df.groupby('decile').agg(count, sum, mean), the groups in ascending
\* order without the missing one, then the lift and the cumulative columns
calculate_lift(true, proba, deciles) ==
    LET codes == qcut(proba, deciles)
        keys == SortedSeq(Range(codes) \ {NoDecile})
        members(c) == {i \in 1..Len(true) : codes[i] = c}
        count(c) == Cardinality(members(c))
        positive_count(c) == Cardinality({i \in members(c) : true[i] = 1})
        overall_response_rate == Mean(true)
        cumulative_count(n) == Cardinality({i \in 1..Len(true) :
                                   \E m \in 1..n : codes[i] = keys[m]})
        cumulative_positive(n) == Cardinality({i \in 1..Len(true) :
                                   true[i] = 1 /\ \E m \in 1..n : codes[i] = keys[m]})
    IN [n \in 1..Len(keys) |->
          [decile |-> keys[n] + 1,
           count |-> count(keys[n]),
           positive_count |-> positive_count(keys[n]),
           response_rate |-> Ratio(positive_count(keys[n]), count(keys[n])),
           lift |-> Quotient(Ratio(positive_count(keys[n]), count(keys[n])),
                             overall_response_rate),
           cumulative_count |-> cumulative_count(n),
           cumulative_positive |-> cumulative_positive(n),
           cumulative_response_rate |-> Ratio(cumulative_positive(n), cumulative_count(n)),
           cumulative_lift |-> Quotient(Ratio(cumulative_positive(n), cumulative_count(n)),
                                        overall_response_rate)]]

DoLift ==
    /\ pc = "evaluator"
    /\ decile' = qcut(y_proba, DefaultDeciles)
    /\ lift_data' = calculate_lift(y_true, y_proba, DefaultDeciles)
    /\ pc' = "lift"
    /\ UNCHANGED <<y_true, y_proba, k_values, sorted_indices, precision_at_k,
                   recall_at_k, business_metrics>>
    /\ UNCHANGED <<data, cutoff_date, prediction_window_days, test_size,
                   random_state, preprocessed_data, labels, train_data, test_data,
                   train_labels, test_labels, train_features, test_features,
                   features, rng, reference_date, calls, lacking, raised>>

Next ==
    \/ DoBasicPreprocessing
    \/ DoCreateLabels
    \/ DoSplitData
    \/ DoSplitLabels
    \/ DoTrainFeatures
    \/ DoTestFeatures

\* the whole pipeline with its defaults, on clean tables that vary in
\* customer and country
Init ==
    InitWith(RawTables(MaxRows, Customers, {1}, {DefaultCutoff}, {1}, Countries, {<<"5">>}),
             {DefaultCutoff}, {1}, {5}, {42}, {DefaultReferenceDate})

Spec == Init /\ [][Next]_vars

\* the data preparation stage (run_data_preprocessing) on clean tables that
\* vary in the order of the customers, for several test sizes and seeds
NextSplit ==
    \/ DoBasicPreprocessing
    \/ DoCreateLabels
    \/ DoSplitData
    \/ DoSplitDataAgain
    \/ DoSplitLabels

InitSplit ==
    InitWith(RawTables(MaxRows, Customers, {1}, {DefaultCutoff}, {1}, {"UK"}, {<<"5">>}),
             {DefaultCutoff}, {1}, {2, 5, 7}, Seeds, {DefaultReferenceDate})

SpecSplit == InitSplit /\ [][NextSplit]_vars

\* the loader alone
NextLoader ==
    \/ DoBasicPreprocessing
    \/ DoCreateLabels

\* tables with missing customer ids, returns, zero quantities, unit prices
\* that are zero or positive, and days on both sides of the cutoff
InitPre ==
    InitWith(RawTables(MaxDirtyRows, {NaN, 1}, Quantities, Days, {0, 2}, {"UK"}, {<<"5">>}),
             {DefaultCutoff}, {1}, {5}, {42}, {DefaultReferenceDate})

SpecPre == InitPre /\ [][NextLoader]_vars

\* clean tables that vary in customer and day, every prediction window
InitLabels ==
    InitWith(RawTables(MaxRows, {1, 2}, {1}, Days, {1}, {"UK"}, {<<"5">>}),
             {DefaultCutoff}, 0..MaxWindow, {5}, {42}, {DefaultReferenceDate})

SpecLabels == InitLabels /\ [][NextLoader]_vars

\* the feature engineer alone, on the preprocessed table
NextDirect ==
    \/ DoBasicPreprocessing
    \/ DoFeatures
    \/ DoFeaturesAgain

\* tables with returns: negative quantities and credit invoices
InitReturns ==
    InitWith(RawTables(MaxRows, {1, 2}, {0 - 1, 2}, {DefaultCutoff}, {1}, {"UK"},
                       {<<"5">>, <<"C", "5">>}),
             {DefaultCutoff}, {1}, {5}, {42}, {DefaultReferenceDate})

SpecReturns == InitReturns /\ [][NextDirect]_vars

\* clean tables that vary in customer and day, some rows after the cutoff,
\* and a reference date on the cutoff or ten days later
InitDirect ==
    InitWith(RawTables(MaxRows, {1, 2}, {1}, Days, {1}, {"UK"}, {<<"5">>}),
             {DefaultCutoff}, {1}, {5}, {42},
             {DefaultReferenceDate, DefaultReferenceDate + 10})

SpecDirect == InitDirect /\ [][NextDirect]_vars

\* raw tables with invoice dates that are not dates
InitParse ==
    InitWith(RawTables(MaxRows, {1, 2}, {0 - 1, 2}, {Unparsable, DefaultCutoff}, {1}, {"UK"},
                       {<<"5">>}),
             {DefaultCutoff}, {1}, {5}, {42}, {DefaultReferenceDate})

SpecParse == InitParse /\ [][NextLoader]_vars

\* the feature engineer on tables that lack a column
NextLacking ==
    \/ DoBasicPreprocessing
    \/ DoFeaturesLacking

SpecLacking == InitDirect /\ [][NextLacking]_vars

\* one quantity and price, days on both sides of the starts of the 30, 90
\* and 180 day windows
MomentumDays ==
    {DefaultReferenceDate - 180, DefaultReferenceDate - 91, DefaultReferenceDate - 90,
     DefaultReferenceDate - 31, DefaultReferenceDate - 30}

InitMomentum ==
    InitWith(RawTables(MaxRows, {1, 2}, {1}, MomentumDays, {2}, {"UK"}, {<<"5">>}),
             {DefaultCutoff}, {1}, {5}, {42}, {DefaultReferenceDate})

SpecMomentum == InitMomentum /\ [][NextDirect]_vars

\* the evaluator alone, on label and probability arrays of the same
\* length, with equal probabilities among them
NextEvaluator ==
    \/ DoPrecisionAtK
    \/ DoRecallAtK
    \/ DoBusinessMetrics
    \/ DoLift

InitEvaluator ==
    /\ \E n \in 1..MaxSamples :
         /\ y_true \in [1..n -> {0, 1}]
         /\ y_proba \in [1..n -> Probas]
    /\ k_values = <<>>
    /\ sorted_indices = <<>>
    /\ precision_at_k = <<>> /\ recall_at_k = <<>>
    /\ business_metrics = <<>>
    /\ decile = <<>>
    /\ lift_data = <<>>
    /\ data = <<>> /\ preprocessed_data = <<>> /\ labels = <<>>
    /\ train_data = <<>> /\ test_data = <<>>
    /\ train_labels = <<>> /\ test_labels = <<>>
    /\ train_features = EmptyFeatures /\ test_features = EmptyFeatures
    /\ features = EmptyFeatures
    /\ cutoff_date = DefaultCutoff
    /\ prediction_window_days = 1
    /\ test_size = 5
    /\ random_state = 42
    /\ rng = {}
    /\ reference_date = DefaultReferenceDate
    /\ calls = 0
    /\ lacking = {}
    /\ raised = ""
    /\ pc = "evaluator"

SpecEvaluator == InitEvaluator /\ [][NextEvaluator]_vars

\* ------------------------------------------------------------- properties
CustomersOf(df) == Range(Column(df, "CustomerID"))

CountriesOf(df) == Range(Column(df, "Country"))

CountryColumns(cols) == {c \in Range(cols) : StartsWithCountry(c)}

AfterSplitData == pc \in {"split_data", "split", "train_features", "done"}

AfterSplitLabels == pc \in {"split", "train_features", "done"}

\* C1: the feature table built with a reference that create_all_features
\* produced without a reference has exactly the reference's column
\* sequence, whatever countries occur in the new table.
C1_SameColumnsAsReference ==
    pc = "done" => test_features.columns = train_features.columns

C1_Witness ==
    /\ pc = "done"
    /\ CountriesOf(test_data) \ CountriesOf(train_data) # {}
    /\ CountriesOf(train_data) \ CountriesOf(test_data) # {}

\* C2: in reference-alignment mode a country column of the reference that
\* the new table did not produce is in the output with 0 on every row, and
\* a country column the new table produced that the reference lacks is not
\* in the output.
C2_CountryColumnsAligned ==
    pc = "done" =>
        LET produced == CountryColumns(create_geographic_features(test_data).columns)
            reference == CountryColumns(train_features.columns)
        IN /\ \A c \in reference \ produced :
                /\ c \in Range(test_features.columns)
                /\ \A i \in 1..Len(test_features.rows) :
                      /\ c \in DOMAIN test_features.rows[i]
                      /\ test_features.rows[i][c] = Zero
           /\ \A c \in produced \ reference :
                /\ c \notin Range(test_features.columns)
                /\ \A i \in 1..Len(test_features.rows) :
                      c \notin DOMAIN test_features.rows[i]

C2_Witness ==
    /\ pc = "done"
    /\ CountryColumns(train_features.columns) = {Dummy("UK")}
    /\ CountryColumns(create_geographic_features(test_data).columns) = {Dummy("FR")}
    /\ Len(test_features.rows) >= 1

\* C3: the same test_size and random_state applied to the transaction table
\* and to the label table put every customer on the same side in both.
C3_SamePartition ==
    pc = "split" =>
        /\ CustomersOf(train_data) = CustomersOf(train_labels)
        /\ CustomersOf(test_data) = CustomersOf(test_labels)

\* C4: the customers of the train table and of the test table are disjoint
\* and together are the customers of the table that was split.
C4_DisjointCover ==
    /\ AfterSplitData =>
          /\ CustomersOf(train_data) \cap CustomersOf(test_data) = {}
          /\ CustomersOf(train_data) \cup CustomersOf(test_data) = CustomersOf(preprocessed_data)
    /\ AfterSplitLabels =>
          /\ CustomersOf(train_labels) \cap CustomersOf(test_labels) = {}
          /\ CustomersOf(train_labels) \cup CustomersOf(test_labels) = CustomersOf(labels)

C4_Witness ==
    /\ pc = "split"
    /\ Cardinality(CustomersOf(preprocessed_data)) >= 3
    /\ Cardinality(CustomersOf(test_data)) = 2
    /\ Cardinality(CustomersOf(test_labels)) = 2

\* C5: every row of the split table is in exactly one of train and test,
\* unchanged, and rows of one customer are in the same one.
Occurrences(df, r) == Cardinality({i \in 1..Len(df) : df[i] = r})

C5_RowsMoveTogether ==
    pc = "split_data" =>
        /\ \A i \in 1..Len(preprocessed_data) :
              Occurrences(train_data, preprocessed_data[i])
                + Occurrences(test_data, preprocessed_data[i]) = 1
        /\ Len(train_data) + Len(test_data) = Len(preprocessed_data)
        /\ \A i, j \in 1..Len(preprocessed_data) :
              preprocessed_data[i].CustomerID = preprocessed_data[j].CustomerID =>
                 (Occurrences(train_data, preprocessed_data[i]) = 1
                    <=> Occurrences(train_data, preprocessed_data[j]) = 1)

C5_Witness ==
    /\ pc = "split_data"
    /\ Len(preprocessed_data) > Cardinality(CustomersOf(preprocessed_data))
    /\ Len(train_data) > Cardinality(CustomersOf(train_data))

\* C6: a second call of get_train_test_split on the same table with the
\* same test_size and random_state returns the same train and test tables.
C6_SameSeedSameSplit ==
    [][(pc = "split_data" /\ pc' = "split_data" /\ calls' = calls + 1)
          => (train_data' = train_data /\ test_data' = test_data)]_vars

C6_Witness ==
    /\ pc = "split_data"
    /\ calls = 2
    /\ Cardinality(CustomersOf(preprocessed_data)) >= 2

\* C7: create_labels returns one row per customer, with the customer's
\* latest day, and will_purchase = 1 exactly when the customer has a
\* transaction t with prediction_cutoff < t <= max_date, max_date being the
\* latest day of the whole table; a customer whose latest transaction is at
\* or before prediction_cutoff gets 0.
IsLatestDay(df, d) ==
    /\ \E i \in 1..Len(df) : df[i].InvoiceDate = d
    /\ \A i \in 1..Len(df) : df[i].InvoiceDate <= d

C7_LabelsByGlobalWindow ==
    pc \notin {"loaded", "preprocessed"} =>
        /\ Len(labels) = Cardinality(CustomersOf(preprocessed_data))
        /\ {labels[i].CustomerID : i \in 1..Len(labels)} = CustomersOf(preprocessed_data)
        /\ \A i \in 1..Len(labels) : \A max_date \in Days :
              IsLatestDay(preprocessed_data, max_date) =>
                 LET own == RowsOf(preprocessed_data, labels[i].CustomerID)
                     prediction_cutoff == max_date - prediction_window_days
                     bought == \E j \in 1..Len(own) :
                                  /\ prediction_cutoff < own[j].InvoiceDate
                                  /\ own[j].InvoiceDate <= max_date
                 IN /\ IsLatestDay(own, labels[i].last_purchase_date)
                    /\ labels[i].will_purchase = (IF bought THEN 1 ELSE 0)
                    /\ labels[i].last_purchase_date <= prediction_cutoff
                          => labels[i].will_purchase = 0

C7_Witness ==
    /\ pc = "labelled"
    /\ \E i, j \in 1..Len(labels) :
          /\ labels[i].will_purchase = 1
          /\ labels[j].will_purchase = 0
          /\ \E k \in 1..Len(preprocessed_data) :
                /\ preprocessed_data[k].CustomerID = labels[i].CustomerID
                /\ preprocessed_data[k].InvoiceDate < labels[i].last_purchase_date

\* C8: every row basic_preprocessing returns has quantity > 0,
\* total_amount >= 0 and a customer id.
C8_CleanRows ==
    pc # "loaded" =>
        \A i \in 1..Len(preprocessed_data) :
            /\ preprocessed_data[i].Quantity > 0
            /\ preprocessed_data[i].TotalAmount >= 0
            /\ preprocessed_data[i].CustomerID # NaN

C8_Witness ==
    /\ pc = "preprocessed"
    /\ \E i \in 1..Len(data) : data[i].CustomerID = NaN
    /\ \E i \in 1..Len(data) : \E j \in 1..Len(preprocessed_data) :
          /\ data[i].Quantity < 0
          /\ preprocessed_data[j].idx = data[i].idx

\* C9: basic_preprocessing keeps exactly the raw rows with a customer id, a
\* non-zero quantity and a day up to and including the cutoff.
Survives(r, cutoff) ==
    r.CustomerID # NaN /\ r.Quantity # 0 /\ r.InvoiceDate <= cutoff

C9_ExactlyTheSurvivors ==
    pc # "loaded" =>
        Column(preprocessed_data, "idx")
            = Column(SelectSeq(data, LAMBDA r : Survives(r, cutoff_date)), "idx")

C9_Witness ==
    /\ pc = "preprocessed"
    /\ \E i, j \in 1..Len(data) :
          /\ data[i].InvoiceDate = cutoff_date
          /\ data[i].idx \in Range(Column(preprocessed_data, "idx"))
          /\ data[j].InvoiceDate > cutoff_date
          /\ data[j].CustomerID # NaN
          /\ data[j].Quantity # 0
          /\ data[j].idx \notin Range(Column(preprocessed_data, "idx"))

\* C10: create_all_features returns exactly one row per customer of the
\* table it is given.
OneRowPerCustomer(t, df) ==
    /\ Len(t.rows) = Cardinality(CustomersOf(df))
    /\ {t.rows[i][CustomerIDCol].num : i \in 1..Len(t.rows)} = CustomersOf(df)

C10_OneRowPerCustomer ==
    /\ pc \in {"train_features", "done"} => OneRowPerCustomer(train_features, train_data)
    /\ pc = "done" => OneRowPerCustomer(test_features, test_data)

C10_Witness ==
    /\ pc = "done"
    /\ Len(train_data) > Cardinality(CustomersOf(train_data))
    /\ Len(train_features.rows) >= 1
    /\ Len(test_features.rows) >= 1

AfterTrainFeatures == pc \in {"train_features", "done"}

AfterFeatures == pc \in {"features", "features_twice"}

Transactions(df, cust) == Cardinality({i \in 1..Len(df) : df[i].CustomerID = cust})

CustomerOfRow(row) == row[CustomerIDCol].num

\* C11 (as claimed): without a reference the set of columns of the feature
\* table is exactly the list get_feature_names returns.
C11_ColumnsAreFeatureNames ==
    AfterTrainFeatures => Range(train_features.columns) = Range(get_feature_names)

\* C11 (amended): without a reference the set of columns is the list
\* get_feature_names returns together with CustomerID and one country_<name>
\* column per primary country observed in the table.
PrimaryCountries(df) ==
    {Mode(Column(RowsOf(df, c), "Country")) : c \in CustomersOf(df)}

C11_ColumnsAreNamesKeyAndCountries ==
    AfterTrainFeatures =>
        Range(train_features.columns)
            = Range(get_feature_names) \cup {CustomerIDCol}
                \cup {Dummy(c) : c \in PrimaryCountries(train_data)}

C11_Witness ==
    /\ pc = "train_features"
    /\ Len(train_features.rows) = 1
    /\ CountriesOf(train_data) = Countries
    /\ CountryColumns(train_features.columns) = {Dummy("FR")}

\* C12: no cell of the feature table is missing, and for a customer with one
\* transaction std_day_of_week and std_month are 0.
NoneMissing(t, df) ==
    \A i \in 1..Len(t.rows) :
        /\ DOMAIN t.rows[i] = Range(t.columns)
        /\ \A c \in DOMAIN t.rows[i] : t.rows[i][c].kind # "nan"
        /\ Transactions(df, CustomerOfRow(t.rows[i])) = 1 =>
              /\ t.rows[i][Col("std_day_of_week")] = Zero
              /\ t.rows[i][Col("std_month")] = Zero

C12_NoMissingCell ==
    /\ AfterTrainFeatures => NoneMissing(train_features, train_data)
    /\ pc = "done" => NoneMissing(test_features, test_data)

C12_Witness ==
    /\ pc = "done"
    /\ \E i \in 1..Len(test_features.rows) :
          Transactions(test_data, CustomerOfRow(test_features.rows[i])) = 1
    /\ \E i \in 1..Len(train_features.rows) :
          Transactions(train_data, CustomerOfRow(train_features.rows[i])) = 2
    /\ CountryColumns(train_features.columns)
          # CountryColumns(create_geographic_features(test_data).columns)

\* C13: a second call of create_all_features on the table the first call was
\* given, without a reference, returns the same feature table.
C13_SecondCallSameFeatures ==
    [][(pc = "features" /\ pc' = "features_twice") => features' = features]_vars

C13_Witness ==
    /\ pc = "features_twice"
    /\ Len(features.rows) >= 2
    /\ \E i \in 1..Len(preprocessed_data) :
          /\ data[preprocessed_data[i].idx].Quantity < 0
          /\ ~preprocessed_data[i].is_return

\* C14: create_all_features leaves the transaction table it is given as it
\* was.
C14_InputTableUnchanged ==
    [][(pc = "preprocessed" /\ pc' = "features")
          => preprocessed_data' = preprocessed_data]_vars

\* C15: basic_preprocessing leaves the loader's raw table as it was.
C15_RawTableUnchanged ==
    [][(pc = "loaded" /\ pc' = "preprocessed") => data' = data]_vars

C15_Witness ==
    /\ pc = "preprocessed"
    /\ Len(preprocessed_data) = 1
    /\ Len(data) = 2
    /\ preprocessed_data[1].Quantity # data[preprocessed_data[1].idx].Quantity

\* C16: every transaction whose raw quantity was negative is flagged
\* is_return after create_all_features and is counted in its customer's
\* total_returns, return_rate and return_amount.
RawReturns(df, cust) ==
    SelectSeq(df, LAMBDA r : r.CustomerID = cust /\ data[r.idx].Quantity < 0)

C16_SignSurvives ==
    AfterFeatures =>
        /\ \A i \in 1..Len(preprocessed_data) :
              data[preprocessed_data[i].idx].Quantity < 0 => preprocessed_data[i].is_return
        /\ \A i \in 1..Len(features.rows) :
              LET row == features.rows[i]
                  raw == RawReturns(preprocessed_data, CustomerOfRow(row))
              IN /\ row[Col("total_returns")].num >= Len(raw)
                 /\ row[Col("return_amount")].num >= Sum(raw, "TotalAmount")
                 /\ Len(raw) > 0 => row[Col("return_rate")].num > 0

\* C17 (as claimed): each customer has exactly one country indicator set,
\* that of the customer's most frequent country, ties going to the country
\* the customer's transactions show first.
MostFrequent(s) == {v \in Range(s) : \A w \in Range(s) : Count(s, w) <= Count(s, v)}

OneIndicator(row, cols, country) ==
    \A c \in CountryColumns(cols) :
        row[c] = (IF c = Dummy(country) THEN Num(1) ELSE Zero)

C17_TieGoesToFirstSeen ==
    AfterTrainFeatures =>
        \A i \in 1..Len(train_features.rows) :
            LET row == train_features.rows[i]
                s == Column(RowsOf(train_data, CustomerOfRow(row)), "Country")
                best == MostFrequent(s)
                chosen == CHOOSE v \in best : \A w \in best : FirstIndex(s, v) <= FirstIndex(s, w)
            IN /\ Dummy(chosen) \in Range(train_features.columns)
               /\ OneIndicator(row, train_features.columns, chosen)

\* C17 (amended): ties go to the country whose name sorts first.
C17_TieGoesToSortedFirst ==
    AfterTrainFeatures =>
        \A i \in 1..Len(train_features.rows) :
            LET row == train_features.rows[i]
                s == Column(RowsOf(train_data, CustomerOfRow(row)), "Country")
                best == MostFrequent(s)
                chosen == CHOOSE v \in best : \A w \in best : CountryRank(v) <= CountryRank(w)
            IN /\ Dummy(chosen) \in Range(train_features.columns)
               /\ OneIndicator(row, train_features.columns, chosen)

C17_Witness ==
    /\ pc = "train_features"
    /\ \E i, j \in 1..Len(train_data) :
          /\ i < j
          /\ train_data[i].CustomerID = train_data[j].CustomerID
          /\ train_data[i].Country = "UK"
          /\ train_data[j].Country = "FR"
          /\ Transactions(train_data, train_data[i].CustomerID) = 2

\* C18: recency_days is the number of days from the customer's latest
\* invoice day to the reference date.
C18_RecencyFromLastPurchase ==
    AfterFeatures =>
        \A i \in 1..Len(features.rows) : \A d \in Days :
            IsLatestDay(RowsOf(preprocessed_data, CustomerOfRow(features.rows[i])), d)
                => features.rows[i][Col("recency_days")] = Num(reference_date - d)

C18_Witness ==
    /\ pc = "features"
    /\ \E i \in 1..Len(features.rows) :
          /\ features.rows[i][Col("recency_days")] = Num(10)
          /\ features.rows[i][Col("customer_lifetime_days")] = Num(1)

\* C19: create_all_features on an empty table does not raise.
C19_EmptyTableNoError ==
    ~(pc = "error" /\ preprocessed_data = <<>>)

\* C20: create_labels on an empty table does not raise and returns an empty
\* label table.
C20_EmptyTableEmptyLabels ==
    preprocessed_data = <<>> =>
        /\ pc # "error"
        /\ pc = "labelled" => labels = <<>>

C20_Witness ==
    /\ pc = "labelled"
    /\ preprocessed_data = <<>>
    /\ labels = <<>>
    /\ Len(data) = 2

\* C21: whenever the table lacks one of the required raw columns,
\* create_all_features fails with a FeatureComputationError and produces no
\* feature table.
C21_LackingColumnIsFeatureComputationError ==
    (pc \in {"features", "error"} /\ lacking \cap RequiredRawColumns # {}) =>
        /\ pc = "error"
        /\ raised = "FeatureComputationError"
        /\ features = EmptyFeatures

\* C22: when an invoice timestamp cannot be parsed, basic_preprocessing
\* fails with a DataFormatError and returns no table.
C22_UnparsableIsDataFormatError ==
    (pc # "loaded" /\ to_datetime_raises(data)) =>
        /\ pc = "error"
        /\ raised = "DataFormatError"
        /\ preprocessed_data = <<>>

AfterRanking == pc \in {"precision", "recall", "business"}

\* C23: the ranking is by probability descending, and customers with equal
\* probability keep their input order, the smaller input index first.
C23_StableDescendingRanking ==
    AfterRanking =>
        \A i, j \in 1..Len(sorted_indices) :
            i < j =>
                \/ y_proba[sorted_indices[i]] > y_proba[sorted_indices[j]]
                \/ /\ y_proba[sorted_indices[i]] = y_proba[sorted_indices[j]]
                   /\ sorted_indices[i] < sorted_indices[j]

\* C24: calculate_lift ranks descending by probability: a customer of an
\* earlier decile has a probability at least that of a customer of a later
\* decile, and decile 1 holds the highest probability.
C24_DecilesDescending ==
    pc = "lift" =>
        /\ \A a, b \in 1..Len(decile) :
              (decile[a] # NoDecile /\ decile[b] # NoDecile /\ decile[a] < decile[b])
                  => y_proba[a] >= y_proba[b]
        /\ \A a \in 1..Len(decile) :
              y_proba[a] = Max(Range(y_proba)) => decile[a] + 1 = 1

\* C25: for every k of at least the number of samples precision@k is the
\* overall positive rate mean(y_true), whatever the probabilities and ties.
C25_PrecisionAtAllIsPositiveRate ==
    pc = "precision" =>
        \A k \in DOMAIN precision_at_k :
            k >= Len(y_true) =>
                precision_at_k[k] = Ratio(Cardinality({i \in 1..Len(y_true) : y_true[i] = 1}),
                                          Len(y_true))

C25_Witness ==
    /\ pc = "precision"
    /\ Len(y_true) = 3
    /\ k_values = <<3>>
    /\ y_proba[1] = y_proba[2]
    /\ y_proba[3] > y_proba[1]
    /\ precision_at_k[3] = Ratio(1, 3)

\* C26: for labels with at least one positive, the lift of the decile
\* groups averaged with the groups' counts as weights is 1, and the last
\* row's cumulative_lift is 1, also when equal probabilities leave fewer
\* than ten groups.
AddCells(a, b) == Ratio(a.num * b.den + b.num * a.den, a.den * b.den)

RECURSIVE WeightedLift(_)
WeightedLift(rows) ==
    IF rows = <<>> THEN Zero
    ELSE AddCells(Ratio(rows[1].count * rows[1].lift.num, rows[1].lift.den),
                  WeightedLift(Tail(rows)))

C26_WeightedLiftIsOne ==
    (pc = "lift" /\ \E i \in 1..Len(y_true) : y_true[i] = 1) =>
        /\ lift_data # <<>>
        /\ WeightedLift(lift_data) = Num(SumSeq([n \in 1..Len(lift_data) |-> lift_data[n].count]))
        /\ lift_data[Len(lift_data)].cumulative_lift = Num(1)

\* C27: the i-th row of the train (test) feature table and the i-th row of
\* the train (test) label table carry the same customer id.
PairedByPosition(t, lab) ==
    /\ Len(t.rows) = Len(lab)
    /\ \A i \in 1..Len(lab) : CustomerOfRow(t.rows[i]) = lab[i].CustomerID

C27_FeaturesAndLabelsPaired ==
    pc = "done" =>
        /\ PairedByPosition(train_features, train_labels)
        /\ PairedByPosition(test_features, test_labels)

\* C28: will_purchase is 1 exactly when the row's last_purchase_date is
\* later than max_date minus the window; with a window of at least one day
\* every customer holding the latest day of the table is labelled 1, and
\* with a window of 0 days every label is 0.
C28_LabelFromOwnLastPurchase ==
    (pc = "labelled" /\ preprocessed_data # <<>>) =>
        LET max_date == Max(Range(Column(preprocessed_data, "InvoiceDate")))
        IN /\ \A i \in 1..Len(labels) :
                 /\ labels[i].will_purchase = 1
                       <=> labels[i].last_purchase_date > max_date - prediction_window_days
                 /\ (prediction_window_days >= 1 /\ labels[i].last_purchase_date = max_date)
                       => labels[i].will_purchase = 1
                 /\ prediction_window_days = 0 => labels[i].will_purchase = 0
           /\ prediction_window_days >= 1 => \E i \in 1..Len(labels) : labels[i].will_purchase = 1

C28_Witness ==
    /\ pc = "labelled"
    /\ prediction_window_days = 1
    /\ \E i, j \in 1..Len(labels) :
          /\ labels[i].will_purchase = 1
          /\ labels[j].will_purchase = 0
    /\ Len(preprocessed_data) > Len(labels)

\* C29: spend_30d and transactions_30d are the amount and the number of the
\* customer's rows from reference_date - 30 on, spend_90d and
\* transactions_90d the same from reference_date - 90 on, the denominator
\* of spend_ratio_90d_180d is the spend of the rows in [reference_date -
\* 180, reference_date - 90), and the 30 day figures are at most the 90 day
\* figures.
InWindow(df, cust, from, before) ==
    SelectSeq(df, LAMBDA r : /\ r.CustomerID = cust
                             /\ from <= r.InvoiceDate
                             /\ r.InvoiceDate < before)

C29_MomentumWindows ==
    AfterFeatures =>
        \A i \in 1..Len(features.rows) :
            LET row == features.rows[i]
                cust == CustomerOfRow(row)
                last == Max(Days \cup {reference_date}) + 1
                in30 == InWindow(preprocessed_data, cust, reference_date - 30, last)
                in90 == InWindow(preprocessed_data, cust, reference_date - 90, last)
                prev == InWindow(preprocessed_data, cust, reference_date - 180,
                                 reference_date - 90)
            IN /\ row[Col("spend_30d")] = Num(Sum(in30, "TotalAmount"))
               /\ row[Col("transactions_30d")] = Num(Len(in30))
               /\ row[Col("spend_90d")] = Num(Sum(in90, "TotalAmount"))
               /\ row[Col("transactions_90d")] = Num(Len(in90))
               /\ row[Col("spend_ratio_90d_180d")]
                     = Ratio(Sum(in90, "TotalAmount") * Epsilon,
                             Sum(prev, "TotalAmount") * Epsilon + 1)
               /\ row[Col("spend_30d")].num <= row[Col("spend_90d")].num
               /\ row[Col("transactions_30d")].num <= row[Col("transactions_90d")].num

C29_Witness ==
    /\ pc = "features"
    /\ \E i \in 1..Len(features.rows) :
          /\ features.rows[i][Col("transactions_30d")] = Num(1)
          /\ features.rows[i][Col("transactions_90d")] = Num(2)
          /\ features.rows[i][Col("spend_ratio_90d_180d")] = Ratio(4 * Epsilon, 2 * Epsilon + 1)
    /\ \E r \in Range(preprocessed_data) : r.InvoiceDate = reference_date - 30
    /\ \E r \in Range(preprocessed_data) : r.InvoiceDate = reference_date - 90

\* C30: total_returns is the number of the customer's rows flagged
\* is_return, return_rate that number over the customer's rows, between 0
\* and 1, return_amount the amount of the flagged rows, and net_amount the
\* customer's amount minus return_amount.
C30_ReturnFigures ==
    AfterFeatures =>
        \A i \in 1..Len(features.rows) :
            LET row == features.rows[i]
                g == RowsOf(preprocessed_data, CustomerOfRow(row))
                flagged == SelectSeq(g, LAMBDA r : r.is_return)
            IN /\ row[Col("total_returns")] = Num(Len(flagged))
               /\ row[Col("return_rate")] = Ratio(Len(flagged), Len(g))
               /\ 0 <= row[Col("return_rate")].num
               /\ row[Col("return_rate")].num <= row[Col("return_rate")].den
               /\ row[Col("return_amount")] = Num(Sum(flagged, "TotalAmount"))
               /\ row[Col("net_amount")].num + row[Col("return_amount")].num
                     = Sum(g, "TotalAmount")

C30_Witness ==
    /\ pc = "features"
    /\ \E i \in 1..Len(features.rows) :
          /\ features.rows[i][Col("return_rate")] = Ratio(1, 2)
          /\ features.rows[i][Col("return_amount")].num > 0
          /\ features.rows[i][Col("net_amount")].num > 0
    /\ \E i \in 1..Len(features.rows) : features.rows[i][Col("total_returns")] = Zero

====
